---- MODULE Spec2Model ----
(***************************************************************************)
(* Ingestion-and-decode pipeline of the RBS KPI repository:                *)
(*   betting_database.py   (OptimizedBettingDatabase, the MON and Jerry    *)
(*                          fetch loops, process_all_transactions_         *)
(*                          optimized, main)                               *)
(*   claiming_database.py  (ComprehensiveClaimingDatabase, hex_to_int,     *)
(*                          the claim classifier)                          *)
(*                                                                         *)
(* A Python str is a sequence of one-character strings, None is the        *)
(* sequence None below (no str contains its element).  A string that the   *)
(* code only compares after .lower() is a record [s, upper]: its lower-    *)
(* case spelling and whether the spelling at hand has upper-case letters.  *)
(* Amounts are kept as the integer numerator of the code's "/ 1e18".       *)
(***************************************************************************)
EXTENDS Integers, Sequences, FiniteSets, TLC

VARIABLES
    store,          \* rows of betting_transactions, in insertion order
    checkpoint,     \* checkpoints.last_processed_block of the betting database
    claim_store,    \* rows of claiming_transactions, in insertion order
    analytics_store,\* rows of transactions (BettingAnalyticsDB), in insertion order
    batch_in,       \* argument of the last insert call
    inserted_count, \* what the last insert call returned
    height,         \* chain head, client.get_height()
    pc,             \* where the betting run is
    runs,           \* runs started so far
    start_block,    \* start_block of the current / last run
    end_block,      \* end_block of the current / last run
    seeded,         \* TRUE when start_block was read from the checkpoint
    current_block,  \* per fetch task: current_block of its while loop
    fetched,        \* per fetch task: all_tx_data of the task
    run_result,     \* how the last run ended
    commit,         \* whether the insert of the current / last run committed
    cp_before,      \* checkpoint read when the current / last run started
    prev,           \* the run before the current one, for comparison
    abandoned,      \* current run: lowest from_block of a window whose query raised
    skipped,        \* current run: lowest block a loop went past undelivered
    dec_in,         \* decode harness: the string handed to the decoders
    dec_out,        \* decode harness: what they returned
    cls_in,         \* classifier harness: one transaction with its logs
    cls_out         \* classifier harness: what the classifier emitted

storeVars == <<store, checkpoint, claim_store, analytics_store, batch_in,
               inserted_count>>
runVars   == <<height, pc, runs, start_block, end_block, seeded, current_block,
               fetched, run_result, commit, cp_before, prev, abandoned, skipped>>
decVars   == <<dec_in, dec_out>>
clsVars   == <<cls_in, cls_out>>
vars      == <<storeVars, runVars, decVars, clsVars>>

(***************************************************************************)
(* Bounds of the model.                                                    *)
(***************************************************************************)
MaxRuns     == 2    \* runs of the pipeline in one behaviour
MaxLiveRuns == 1    \* the same, in the specification with fairness
MaxHeight   == 3    \* the chain never grows beyond this head
MaxBatch    == 2    \* longest batch handed to an insert call directly
MaxLen      == 3    \* longest string handed to the decoders
MaxLogs     == 3    \* most logs of a transaction in the classifier harness
MaxPages    == 2    \* responses of one fetch task handed to its loop directly
MaxPageLen  == 2    \* transactions / logs listed by one such response

Min(a, b) == IF a < b THEN a ELSE b

(***************************************************************************)
(* Python strings.                                                         *)
(***************************************************************************)
None == <<"None">>

\* Python truthiness of an optional str: None and "" are falsy.
Truthy(s) == s # None /\ s # <<>>

\* s[a:b] of Python, 0-based and clamped to the string.
Slice(s, a, b) ==
    IF a >= Min(b, Len(s)) THEN <<>> ELSE SubSeq(s, a + 1, Min(b, Len(s)))

HexDigits == {"0", "1", "2", "3", "4", "5", "6", "7", "8", "9",
              "a", "b", "c", "d", "e", "f"}

HexDigitVal(c) ==
    CASE c = "0" -> 0  [] c = "1" -> 1  [] c = "2" -> 2  [] c = "3" -> 3
      [] c = "4" -> 4  [] c = "5" -> 5  [] c = "6" -> 6  [] c = "7" -> 7
      [] c = "8" -> 8  [] c = "9" -> 9  [] c = "a" -> 10 [] c = "b" -> 11
      [] c = "c" -> 12 [] c = "d" -> 13 [] c = "e" -> 14 [] c = "f" -> 15

\* value of the first n digits of ds, most significant digit first
RECURSIVE HexPrefixVal(_, _)
HexPrefixVal(ds, n) ==
    IF n = 0 THEN 0 ELSE 16 * HexPrefixVal(ds, n - 1) + HexDigitVal(ds[n])

HexVal(ds) == HexPrefixVal(ds, Len(ds))

\* int(s, 16) of Python on the strings of the model (no white space, no
\* underscore): an optional sign, an optional "0x" and then at least one hex
\* digit; anything else raises ValueError, None raises TypeError.
PyIntUnsigned(s) ==
    IF s # <<>> /\ s[1] \in {"-", "+"} THEN Tail(s) ELSE s

PyIntSign(s) == IF s # <<>> /\ s[1] = "-" THEN -1 ELSE 1

PyIntDigits(s) ==
    LET u == PyIntUnsigned(s)
    IN  IF Len(u) >= 2 /\ u[1] = "0" /\ u[2] = "x" THEN SubSeq(u, 3, Len(u))
        ELSE u

PyIntOk(s) ==
    /\ s # None
    /\ LET ds == PyIntDigits(s)
       IN  ds # <<>> /\ \A i \in DOMAIN ds : ds[i] \in HexDigits

PyInt16(s) ==
    IF PyIntOk(s)
    THEN [raised |-> FALSE, value |-> PyIntSign(s) * HexVal(PyIntDigits(s))]
    ELSE [raised |-> TRUE, value |-> 0]

Returned(v) == [raised |-> FALSE, value |-> v]

(***************************************************************************)
(* hex_to_int, betting_database.py: the conversion sits in a try/except    *)
(* that turns ValueError and TypeError into 0.                             *)
(***************************************************************************)
hex_to_int(hex_str) ==
    IF ~Truthy(hex_str) \/ hex_str = <<"0", "x">> THEN Returned(0)
    ELSE LET r == PyInt16(hex_str) IN IF r.raised THEN Returned(0) ELSE r

(***************************************************************************)
(* hex_to_int, claiming_database.py: the same test, then a bare int().     *)
(***************************************************************************)
claim_hex_to_int(hex_str) ==
    IF ~Truthy(hex_str) \/ hex_str = <<"0", "x">> THEN Returned(0)
    ELSE PyInt16(hex_str)

(***************************************************************************)
(* hex_to_int, rarebet.py: only the falsy test, then a bare int().         *)
(***************************************************************************)
rarebet_hex_to_int(hex_str) ==
    IF ~Truthy(hex_str) THEN Returned(0) ELSE PyInt16(hex_str)

(***************************************************************************)
(* The record store.                                                       *)
(***************************************************************************)
HasHash(table, h) == \E i \in DOMAIN table : table[i].tx_hash = h

\* executemany("INSERT OR IGNORE ..."): the rows are tried in order, a row
\* whose tx_hash (the primary key) is already in the table is skipped.
InsertOrIgnore_NoIgnore(table, batch) == table \o batch

\* INSERT OR REPLACE: the row under the tx_hash is deleted, the new one added
RECURSIVE InsertOrIgnore_Replace(_, _)
InsertOrIgnore_Replace(table, batch) ==
    IF batch = <<>> THEN table
    ELSE InsertOrIgnore_Replace(
             Append(SelectSeq(table, LAMBDA row : row.tx_hash # Head(batch).tx_hash),
                    Head(batch)),
             Tail(batch))

RECURSIVE InsertOrIgnore(_, _)
InsertOrIgnore(table, batch) ==
    IF batch = <<>> THEN table
    ELSE InsertOrIgnore(IF HasHash(table, Head(batch).tx_hash) THEN table
                        ELSE Append(table, Head(batch)),
                        Tail(batch))

\* a return value that counts the records handed in, not the rows added
insert_transactions_batch_CountAttempted(table, transactions, db_error) ==
    IF transactions = <<>> THEN [table |-> table, count |-> 0]
    ELSE IF db_error THEN [table |-> table, count |-> 0]
    ELSE [table |-> InsertOrIgnore(table, transactions),
          count |-> Len(transactions)]

\* OptimizedBettingDatabase.insert_transactions_batch: the new table and the
\* returned count.  db_error is a sqlite3.Error from executemany or commit:
\* the handler returns 0 and the connection is closed without a commit.
insert_transactions_batch(table, transactions, db_error) ==
    IF transactions = <<>> THEN [table |-> table, count |-> 0]
    ELSE IF db_error THEN [table |-> table, count |-> 0]
    ELSE [table |-> InsertOrIgnore(table, transactions),
          count |-> Len(InsertOrIgnore(table, transactions)) - Len(table)]

\* ComprehensiveClaimingDatabase.insert_transactions: one INSERT per record,
\* sqlite3.IntegrityError (tx_hash UNIQUE) skips the record.
InsertEach_NoUnique(table, batch) == table \o batch

RECURSIVE InsertEach(_, _)
InsertEach(table, batch) ==
    IF batch = <<>> THEN table
    ELSE InsertEach(IF HasHash(table, Head(batch).tx_hash) THEN table
                    ELSE Append(table, Head(batch)),
                    Tail(batch))

\* Any other database error leaves the loop as an exception: nothing is
\* committed and nothing is returned.
insert_transactions(table, transactions, db_error) ==
    IF transactions = <<>> THEN [table |-> table, count |-> 0, raised |-> FALSE]
    ELSE IF db_error THEN [table |-> table, count |-> 0, raised |-> TRUE]
    ELSE [table |-> InsertEach(table, transactions),
          count |-> Len(InsertEach(table, transactions)) - Len(table),
          raised |-> FALSE]

\* BettingAnalyticsDB.insert_transactions (modules/database.py): one INSERT
\* per record into transactions (tx_hash PRIMARY KEY), sqlite3.IntegrityError
\* skips the record, any other error leaves the method before the commit.
analytics_insert_transactions(table, transactions, db_error) ==
    IF transactions = <<>> THEN [table |-> table, count |-> 0, raised |-> FALSE]
    ELSE IF db_error THEN [table |-> table, count |-> 0, raised |-> TRUE]
    ELSE [table |-> InsertEach(table, transactions),
          count |-> Len(InsertEach(table, transactions)) - Len(table),
          raised |-> FALSE]

\* update_bet_ids_batch (fast_bet_id_query.py): for every item of the map,
\* UPDATE betting_transactions SET bet_id = ? WHERE tx_hash = ?; the sum of
\* the rowcounts is returned.
update_bet_ids_batch(table, bet_id_map) ==
    [table |-> [i \in DOMAIN table |->
                   IF table[i].tx_hash \in DOMAIN bet_id_map
                   THEN [table[i] EXCEPT
                            !.bet_id = bet_id_map[table[i].tx_hash]]
                   ELSE table[i]],
     count |-> Cardinality({i \in DOMAIN table :
                               table[i].tx_hash \in DOMAIN bet_id_map})]

\* BettingAnalyticsDB.cleanup_old_data: DELETE FROM transactions WHERE
\* block_timestamp < cutoff_date; the rowcount is returned.
cleanup_old_data(table, cutoff_date) ==
    [table |-> SelectSeq(table, LAMBDA r : ~(r.block_timestamp < cutoff_date)),
     count |-> Cardinality({i \in DOMAIN table :
                               table[i].block_timestamp < cutoff_date})]

(***************************************************************************)
(* Records and batches handed to the insert calls directly.                *)
(***************************************************************************)
BetRow(h, id) ==
    [timestamp |-> 1700000000, tx_hash |-> h, from_address |-> "0xuser",
     to_address |-> "0x3ad5", token |-> "MON", amount |-> 5, n_cards |-> 3,
     bet_id |-> id, block_number |-> 1]

ClaimRow(h, id) ==
    [timestamp |-> 1700000000, tx_hash |-> h, from_address |-> "0xuser",
     to_address |-> "0x3ad5", token |-> "MON", amount |-> 5,
     bet_id |-> id, block_number |-> 1]

\* two records that differ in a field under one hash, and a second hash
BetRows   == {BetRow("0xaa", 0), BetRow("0xaa", 42), BetRow("0xbb", 0)}
ClaimRows == {ClaimRow("0xaa", 0), ClaimRow("0xaa", 42), ClaimRow("0xbb", 0)}

AnalyticsRow(h, id, ts) ==
    [tx_hash |-> h, origin_from_address |-> "0xuser", bet_amt |-> 5,
     betting_token |-> "MON", cards_in_slip |-> 3, bet_id_decoded |-> id,
     block_number |-> 1, block_timestamp |-> ts]

\* one record of an early day and two of the day after
AnalyticsRows == {AnalyticsRow("0xaa", 0, 1700000000),
                  AnalyticsRow("0xaa", 42, 1700086400),
                  AnalyticsRow("0xbb", 0, 1700086400)}

\* now - days_to_keep: before every record, between the two days, after both
CutoffDates == {1699990000, 1700050000, 1700090000}

\* the maps main builds from the card event logs: tx_hash -> bet id > 0
BetIdMaps ==
    UNION {[H -> {42}] : H \in (SUBSET {"0xaa", "0xbb", "0xcc"}) \ {{}}}

SeqsUpTo(S, n) == UNION {[1..k -> S] : k \in 0..n}

NoBatch == <<>>

(***************************************************************************)
(* Configuration of betting_database.py.                                   *)
(***************************************************************************)
LC(s)    == [s |-> s, upper |-> FALSE]
Mixed(s) == [s |-> s, upper |-> TRUE]
Lower(x) == [s |-> x.s, upper |-> FALSE]
CNone    == [s |-> "", upper |-> FALSE]
CTruthy(x) == x.s # ""

RBS_A == LC("0x3ad50059d6008b711209a509fe58e68f0b672a42")
RBS_B == LC("0x740990cb01e893a371a050736c62ae0b779109e7")
CONTRACT_ADDRESSES_1     == {RBS_A, RBS_B}
CONTRACT_ADDRESS_2_TX_TO == RBS_B
CONTRACT_ADDRESS_2_LOG_A == LC("0xda054a96254776346386060c480b42a10c870cd2")
CONTRACT_ADDRESS_2_LOG_B == RBS_B
SIG_HASH_1 == <<"0", "x", "5", "0", "2", "9", "d", "e", "f", "b">>
SIG_HASH_2 == <<"0", "x", "b", "6", "5", "c", "1", "0", "6", "f">>
TOPIC_0_LOG_A ==
    LC("0xddf252ad1be2c89b69c2b068fc378daa952ba7f163c4a11628f55a4df523b3ef")
CARDS_LOG_TOPIC_0 ==
    LC("0xefc52bf7792453af1461fa9a7097486359b41a048898b6d542c0f03389487187")

\* BATCH_SIZE is 50000 in the source; the model scales the window to 2 blocks.
BATCH_SIZE == 2

\* asyncio.Semaphore(MAX_CONCURRENT_REQUESTS) around each fetch task
MAX_CONCURRENT_REQUESTS == 3

Tasks == {"MON", "Jerry"}

(***************************************************************************)
(* calculate_cards_in_slip_from_tx, betting_database.py.                   *)
(***************************************************************************)
calculate_cards_in_slip_from_tx(tx_input) ==
    IF ~Truthy(tx_input) \/ Len(tx_input) < 138 THEN 0
    ELSE IF Len(tx_input) < 74 + 64 THEN 0
    ELSE LET card_count == PyInt16(Slice(tx_input, 74, 74 + 64))
         IN  IF card_count.raised THEN 0
             ELSE IF card_count.value > 1000000 THEN 0
             ELSE card_count.value

(***************************************************************************)
(* calculate_cards_in_slip_from_tx, rarebet.py: the length test against    *)
(* end_index, then the conversion in a try/except.                         *)
(***************************************************************************)
rarebet_calculate_cards_in_slip_from_tx(tx_input) ==
    IF ~Truthy(tx_input) \/ Len(tx_input) < 74 + 64 THEN 0
    ELSE LET card_count == PyInt16(Slice(tx_input, 74, 74 + 64))
         IN  IF card_count.raised THEN 0
             ELSE IF card_count.value > 1000000 THEN 0
             ELSE card_count.value

(***************************************************************************)
(* The chain the service indexes: a fixed ledger of transactions and logs, *)
(* in chain order.  Block b exists once height > b.                        *)
(***************************************************************************)
Zeros(n) == [i \in 1..n |-> "0"]
Word(ds) == Zeros(64 - Len(ds)) \o ds
Ox == <<"0", "x">>

\* block.timestamp, a hex string
BlockTimestamp(b) ==
    CASE b = 0 -> <<"0", "x", "6", "0">>
      [] b = 1 -> <<"0", "x", "6", "1">>
      [] b = 2 -> <<"0", "x", "6", "2">>
      [] OTHER -> <<"0", "x", "6", "f">>

ChainTxs == <<
    \* a MON bet of 3 cards
    [hash |-> "0xm1", from_ |-> "0xalice", to |-> RBS_A, status |-> 1,
     block_number |-> 1, value |-> <<"0", "x", "5">>,
     input |-> SIG_HASH_1 \o Word(<<"4", "0">>) \o Word(<<"3">>)],
    \* a reverted MON bet
    [hash |-> "0xf1", from_ |-> "0xbob", to |-> RBS_A, status |-> 0,
     block_number |-> 1, value |-> <<"0", "x", "9">>,
     input |-> SIG_HASH_1 \o Word(<<"4", "0">>) \o Word(<<"2">>)],
    \* a successful call of the MON selector that emitted no card event
    [hash |-> "0xn1", from_ |-> "0xdave", to |-> RBS_A, status |-> 1,
     block_number |-> 1, value |-> <<"0", "x", "1">>,
     input |-> SIG_HASH_1 \o Word(<<"4", "0">>) \o Word(<<"1">>)],
    \* a Jerry bet of 4 cards
    [hash |-> "0xj2", from_ |-> "0xcarol", to |-> RBS_B, status |-> 1,
     block_number |-> 2, value |-> Ox,
     input |-> SIG_HASH_2 \o Word(<<"7">>)],
    \* a reverted Jerry bet
    [hash |-> "0xg2", from_ |-> "0xerin", to |-> RBS_B, status |-> 0,
     block_number |-> 2, value |-> Ox,
     input |-> SIG_HASH_2 \o Word(<<"6">>)]
>>

ChainLogs == <<
    [transaction_hash |-> "0xm1", block_number |-> 1, address |-> RBS_A,
     topic0 |-> CARDS_LOG_TOPIC_0, topics_len |-> 4,
     topic2 |-> Ox \o Word(<<"2", "a">>), data |-> Ox],
    [transaction_hash |-> "0xj2", block_number |-> 2,
     address |-> Mixed(CONTRACT_ADDRESS_2_LOG_A.s),
     topic0 |-> TOPIC_0_LOG_A, topics_len |-> 4,
     topic2 |-> Ox \o Word(<<"1">>), data |-> Ox \o Word(<<"7">>)],
    [transaction_hash |-> "0xj2", block_number |-> 2, address |-> RBS_B,
     topic0 |-> CARDS_LOG_TOPIC_0, topics_len |-> 4,
     topic2 |-> Ox \o Word(<<"2", "b">>),
     data |-> Ox \o Word(<<"1">>) \o Word(<<"2">>) \o Word(<<"8", "0">>)
                 \o Word(<<"4">>)],
    \* the logs the two reverted bets would have emitted
    [transaction_hash |-> "0xf1", block_number |-> 1, address |-> RBS_A,
     topic0 |-> CARDS_LOG_TOPIC_0, topics_len |-> 4,
     topic2 |-> Ox \o Word(<<"2", "c">>), data |-> Ox],
    [transaction_hash |-> "0xg2", block_number |-> 2,
     address |-> CONTRACT_ADDRESS_2_LOG_A,
     topic0 |-> TOPIC_0_LOG_A, topics_len |-> 4,
     topic2 |-> Ox \o Word(<<"1">>), data |-> Ox \o Word(<<"6">>)],
    [transaction_hash |-> "0xg2", block_number |-> 2, address |-> RBS_B,
     topic0 |-> CARDS_LOG_TOPIC_0, topics_len |-> 4,
     topic2 |-> Ox \o Word(<<"2", "d">>),
     data |-> Ox \o Word(<<"1">>) \o Word(<<"2">>) \o Word(<<"8", "0">>)
                 \o Word(<<"2">>)]
>>

InRange(b, from, upto, h) == from <= b /\ b < upto /\ b < h

\* what a query for [from, to) delivers when the service stops at upto
TxsDelivered(from, upto, h) ==
    SelectSeq(ChainTxs, LAMBDA t : InRange(t.block_number, from, upto, h))

\* the log selections of the Jerry query: Transfer logs of the Jerry token
\* and every log of the RareBet contract
JerryQueryLogs ==
    SelectSeq(ChainLogs, LAMBDA l :
        \/ Lower(l.address) = CONTRACT_ADDRESS_2_LOG_A
             /\ Lower(l.topic0) = TOPIC_0_LOG_A
        \/ Lower(l.address) = CONTRACT_ADDRESS_2_LOG_B)

JerryLogsDelivered(from, upto, h) ==
    SelectSeq(JerryQueryLogs, LAMBDA l : InRange(l.block_number, from, upto, h))

\* the log selection of the bet-id query, asked for block b alone
BetIdQueryLogs ==
    SelectSeq(ChainLogs, LAMBDA l :
        /\ Lower(l.address) \in CONTRACT_ADDRESSES_1
        /\ Lower(l.topic0) = CARDS_LOG_TOPIC_0)

BetIdLogsDelivered(b) ==
    SelectSeq(BetIdQueryLogs, LAMBDA l : l.block_number = b)

\* block_cache: a block is cached when number and timestamp are truthy
BlockCached(b) == b # 0 /\ Truthy(BlockTimestamp(b))
CachedTimestamp(b) == hex_to_int(BlockTimestamp(b)).value

(***************************************************************************)
(* The bet-id query both fetch loops issue per transaction: the first log  *)
(* of the answer that belongs to the transaction, has three topics and the *)
(* card event as topic 0 gives the bet id; an exception leaves it 0.       *)
(***************************************************************************)
IsBetIdLog(l, tx) ==
    /\ l.transaction_hash = tx.hash
    /\ l.topics_len >= 3
    /\ l.topics_len > 0 /\ CTruthy(l.topic0)
    /\ Lower(l.topic0) = CARDS_LOG_TOPIC_0

bet_id_decoded(tx, query_raised) ==
    IF query_raised THEN 0
    ELSE LET logs == SelectSeq(BetIdLogsDelivered(tx.block_number),
                               LAMBDA l : IsBetIdLog(l, tx))
         IN  IF logs = <<>> THEN 0 ELSE hex_to_int(logs[1].topic2).value

(***************************************************************************)
(* fetch_mon_transactions_optimized: the body of the loop over             *)
(* response.data.transactions, as the list it appends to all_tx_data.      *)
(***************************************************************************)
\* the MON loop without the test of tx.status
MonAccepts_AnyStatus(tx) ==
    /\ BlockCached(tx.block_number)
    /\ Slice(tx.input, 0, 10) = SIG_HASH_1

MonAccepts(tx) ==
    /\ tx.status = 1
    /\ BlockCached(tx.block_number)
    /\ Slice(tx.input, 0, 10) = SIG_HASH_1

MonRecord(tx, query_raised) ==
    [timestamp    |-> CachedTimestamp(tx.block_number),
     tx_hash      |-> tx.hash,
     from_address |-> tx.from_,
     to_address   |-> tx.to.s,
     token        |-> "MON",
     amount       |-> hex_to_int(tx.value).value,
     n_cards      |-> calculate_cards_in_slip_from_tx(tx.input),
     bet_id       |-> bet_id_decoded(tx, query_raised),
     block_number |-> tx.block_number]

MonBody(tx, query_raised) ==
    IF MonAccepts(tx) THEN <<MonRecord(tx, query_raised)>> ELSE <<>>

(***************************************************************************)
(* fetch_jerry_transactions_optimized: the body of the loop over           *)
(* logs_by_tx.items().                                                     *)
(***************************************************************************)
RECURSIVE HashesInOrder(_, _)
HashesInOrder(logs, seen) ==
    IF logs = <<>> THEN <<>>
    ELSE IF Head(logs).transaction_hash \in seen
         THEN HashesInOrder(Tail(logs), seen)
         ELSE <<Head(logs).transaction_hash>>
              \o HashesInOrder(Tail(logs), seen \cup {Head(logs).transaction_hash})

LogsOf(logs, tx_hash) == SelectSeq(logs, LAMBDA l : l.transaction_hash = tx_hash)

IsJerryLog(l) ==
    /\ Lower(l.address) = Lower(CONTRACT_ADDRESS_2_LOG_A)
    /\ l.topics_len > 0 /\ CTruthy(l.topic0)
    /\ Lower(l.topic0) = Lower(TOPIC_0_LOG_A)

IsRarebetLog(l) == Lower(l.address) = Lower(CONTRACT_ADDRESS_2_LOG_B)

IsCardEventLog(l) ==
    /\ Lower(l.address) = Lower(CONTRACT_ADDRESS_2_LOG_B)
    /\ l.topics_len > 0 /\ CTruthy(l.topic0)
    /\ Lower(l.topic0) = Lower(CARDS_LOG_TOPIC_0)

TxWithHash(txs, tx_hash) == SelectSeq(txs, LAMBDA t : t.hash = tx_hash)

\* the Jerry loop without the test of the selector
JerryAccepts_AnySelector(txs, tx_logs, tx_hash) ==
    /\ \E i \in DOMAIN tx_logs : IsJerryLog(tx_logs[i])
    /\ \E i \in DOMAIN tx_logs : IsRarebetLog(tx_logs[i])
    /\ TxWithHash(txs, tx_hash) # <<>>
    /\ TxWithHash(txs, tx_hash)[1].status = 1
    /\ BlockCached(TxWithHash(txs, tx_hash)[1].block_number)

JerryAccepts(txs, tx_logs, tx_hash) ==
    /\ \E i \in DOMAIN tx_logs : IsJerryLog(tx_logs[i])
    /\ \E i \in DOMAIN tx_logs : IsRarebetLog(tx_logs[i])
    /\ TxWithHash(txs, tx_hash) # <<>>
    /\ TxWithHash(txs, tx_hash)[1].status = 1
    /\ Slice(TxWithHash(txs, tx_hash)[1].input, 0, 10) = SIG_HASH_2
    /\ BlockCached(TxWithHash(txs, tx_hash)[1].block_number)

\* cards in slip: the fourth word of the card event log's data
StripOx(data) == IF Slice(data, 0, 2) = Ox THEN Slice(data, 2, Len(data)) ELSE data

\* the same, reading the third word
jerry_cards_in_slip_ThirdWord(tx_logs) ==
    LET card_event_logs == SelectSeq(tx_logs, IsCardEventLog)
    IN  IF card_event_logs = <<>> THEN 0
        ELSE IF ~Truthy(card_event_logs[1].data) THEN 0
        ELSE LET data_hex == StripOx(card_event_logs[1].data)
             IN  IF Len(data_hex) >= 128 + 64
                 THEN hex_to_int(Slice(data_hex, 128, 128 + 64)).value
                 ELSE 0

jerry_cards_in_slip(tx_logs) ==
    LET card_event_logs == SelectSeq(tx_logs, IsCardEventLog)
    IN  IF card_event_logs = <<>> THEN 0
        ELSE IF ~Truthy(card_event_logs[1].data) THEN 0
        ELSE LET data_hex == StripOx(card_event_logs[1].data)
             IN  IF Len(data_hex) >= 192 + 64
                 THEN hex_to_int(Slice(data_hex, 192, 192 + 64)).value
                 ELSE 0

\* rarebet.py, fetch_data_part2: the same steps with the hex_to_int of that
\* file and no try/except around them
rarebet_cards_in_slip(tx_logs) ==
    LET card_event_logs == SelectSeq(tx_logs, IsCardEventLog)
    IN  IF card_event_logs = <<>> THEN Returned(0)
        ELSE IF ~Truthy(card_event_logs[1].data) THEN Returned(0)
        ELSE LET data_hex == StripOx(card_event_logs[1].data)
             IN  IF Len(data_hex) >= 192 + 64
                 THEN rarebet_hex_to_int(Slice(data_hex, 192, 192 + 64))
                 ELSE Returned(0)

jerry_bet_amt(tx_logs) ==
    LET jerry_logs == SelectSeq(tx_logs, IsJerryLog)
    IN  IF jerry_logs = <<>> THEN 0
        ELSE IF ~Truthy(jerry_logs[1].data) THEN 0
        ELSE hex_to_int(jerry_logs[1].data).value

JerryRecord(tx, tx_logs, query_raised) ==
    [timestamp    |-> CachedTimestamp(tx.block_number),
     tx_hash      |-> tx.hash,
     from_address |-> tx.from_,
     to_address   |-> CONTRACT_ADDRESS_2_TX_TO.s,
     token        |-> "Jerry",
     amount       |-> jerry_bet_amt(tx_logs),
     n_cards      |-> jerry_cards_in_slip(tx_logs),
     bet_id       |-> bet_id_decoded(tx, query_raised),
     block_number |-> tx.block_number]

JerryBody(txs, tx_logs, tx_hash, query_raised) ==
    IF JerryAccepts(txs, tx_logs, tx_hash)
    THEN <<JerryRecord(TxWithHash(txs, tx_hash)[1], tx_logs, query_raised)>>
    ELSE <<>>

(***************************************************************************)
(* Both loop bodies, evaluated once per transaction of the ledger.  The    *)
(* logs of a transaction lie in its block, so a window that delivers the   *)
(* block delivers the transaction and all of its logs.                     *)
(***************************************************************************)
ChainHashes == {ChainTxs[i].hash : i \in DOMAIN ChainTxs}
                  \cup {ChainLogs[i].transaction_hash : i \in DOMAIN ChainLogs}

MonBodyOf ==
    [hh \in ChainHashes |-> [q \in BOOLEAN |->
        IF TxWithHash(ChainTxs, hh) = <<>> THEN <<>>
        ELSE MonBody(TxWithHash(ChainTxs, hh)[1], q)]]

JerryBodyOf ==
    [hh \in ChainHashes |-> [q \in BOOLEAN |->
        JerryBody(ChainTxs, LogsOf(JerryQueryLogs, hh), hh, q)]]

RECURSIVE MonRecords(_, _)
MonRecords(txs, lq_err) ==
    IF txs = <<>> THEN <<>>
    ELSE MonBodyOf[Head(txs).hash][Head(txs).hash \in lq_err]
         \o MonRecords(Tail(txs), lq_err)

RECURSIVE JerryRecords(_, _)
JerryRecords(hashes, lq_err) ==
    IF hashes = <<>> THEN <<>>
    ELSE JerryBodyOf[Head(hashes)][Head(hashes) \in lq_err]
         \o JerryRecords(Tail(hashes), lq_err)

(***************************************************************************)
(* What the service may answer to the query of a window [from, to): an     *)
(* exception, a response without data, or the data of [from, upto) with    *)
(* next_block = upto, or with no next_block (0).  lq_err are the           *)
(* transactions whose bet-id query raises.                                 *)
(***************************************************************************)
\* the records one response adds to all_tx_data of the task
EmittedData(task, from, upto, lq_err, h) ==
    IF task = "MON"
    THEN MonRecords(TxsDelivered(from, upto, h), lq_err)
    ELSE JerryRecords(HashesInOrder(JerryLogsDelivered(from, upto, h), {}), lq_err)

\* the transactions of a response for which the task issues a bet-id query
BetIdQueries(task, from, upto, h) ==
    LET recs == EmittedData(task, from, upto, {}, h)
    IN  {recs[i].tx_hash : i \in DOMAIN recs}

DataResponses(task, from, upto, h) ==
    {[kind |-> "data", upto |-> upto, next_block |-> nb, lq_err |-> q] :
        nb \in {0, upto}, q \in SUBSET BetIdQueries(task, from, upto, h)}

Responses(task, from, to, h) ==
    {[kind |-> "error", upto |-> from, next_block |-> 0, lq_err |-> {}],
     [kind |-> "nodata", upto |-> from, next_block |-> 0, lq_err |-> {}]}
    \cup UNION {DataResponses(task, from, u, h) : u \in from..to}

Emitted(task, from, r, h) ==
    IF r.kind # "data" THEN <<>>
    ELSE EmittedData(task, from, r.upto, r.lq_err, h)

\* both, evaluated once per window of the ledger
Blocks == 0..MaxHeight

ResponsesOf ==
    [task \in Tasks |-> [from \in Blocks |-> [to \in Blocks |-> [h \in Blocks |->
        Responses(task, from, to, h)]]]]

EmittedOf ==
    [task \in Tasks |-> [from \in Blocks |-> [h \in Blocks |->
        [r \in Responses(task, from, MaxHeight, h) |-> Emitted(task, from, r, h)]]]]

\* a window cut at the chain head, not at the end block of the run
batch_end_ChainHead(from, end) == Min(from + BATCH_SIZE, height)

\* where the loop goes on after the response
batch_end(from, end) == Min(from + BATCH_SIZE, end)

\* the loop without the "next_block > current_block" test
NextCurrentBlock_Unguarded(from, end, r) ==
    IF r.kind # "data" THEN batch_end(from, end) ELSE r.next_block

NextCurrentBlock(from, end, r) ==
    IF r.kind # "data" THEN batch_end(from, end)
    ELSE IF r.next_block # 0 /\ r.next_block > from THEN r.next_block
    ELSE batch_end(from, end)

(***************************************************************************)
(* State after construction: init_database creates the empty table and     *)
(* the checkpoint row with last_processed_block = 0.                       *)
(***************************************************************************)
NoArg  == [given |-> FALSE, value |-> 0]
Arg(v) == [given |-> TRUE, value |-> v]
BlockArgs == {NoArg} \cup {Arg(b) : b \in 0..MaxHeight}

\* the command lines of main; --incremental is not read when --start-block
\* is given
RunArgs ==
    {<<sa, inc, ea>> \in BlockArgs \X BOOLEAN \X BlockArgs : sa.given => ~inc}

NoPrev == [kind |-> "none", start_block |-> 0, end_block |-> 0,
           seeded |-> FALSE, cp_before |-> 0, fetched |-> <<>>, store |-> <<>>]

NoOut == [done |-> FALSE]

InitStore ==
    /\ store = <<>>
    /\ checkpoint = 0
    /\ claim_store = <<>>
    /\ analytics_store = <<>>
    /\ batch_in = NoBatch
    /\ inserted_count = 0

InitRun ==
    /\ height = 2
    /\ pc = "idle"
    /\ runs = 0
    /\ start_block = 0
    /\ end_block = 0
    /\ seeded = FALSE
    /\ current_block = [t \in Tasks |-> 0]
    /\ fetched = [t \in Tasks |-> <<>>]
    /\ run_result = "none"
    /\ commit = "none"
    /\ cp_before = 0
    /\ prev = NoPrev
    /\ abandoned = NoArg
    /\ skipped = NoArg

InitDecode ==
    /\ dec_in = <<>>
    /\ dec_out = NoOut

InitClassify ==
    /\ cls_in = <<>>
    /\ cls_out = NoOut

Init == InitStore /\ InitRun /\ InitDecode /\ InitClassify

(***************************************************************************)
(* process_all_transactions_optimized, called by main.                     *)
(***************************************************************************)
all_tx_data == fetched["MON"] \o fetched["Jerry"]

\* what the next run can compare itself with when it covers the same blocks:
\* a run that completed, or a run that crashed after its insert had committed
Snapshot ==
    IF \/ run_result = "done" /\ commit # "error"
       \/ run_result = "crashed" /\ commit = "ok"
    THEN [kind |-> run_result, start_block |-> start_block,
          end_block |-> end_block, seeded |-> seeded, cp_before |-> cp_before,
          fetched |-> batch_in, store |-> store]
    ELSE NoPrev

\* a run that goes to the fetch tasks whatever the range is
StartRun_NoRangeTest(limit, start_arg, incremental, end_arg) ==
    /\ pc = "idle"
    /\ runs < limit
    /\ runs' = runs + 1
    /\ start_block' = IF start_arg.given THEN start_arg.value
                      ELSE IF incremental THEN checkpoint ELSE 0
    /\ end_block' = IF end_arg.given THEN end_arg.value ELSE height
    /\ seeded' = (~start_arg.given /\ incremental)
    /\ prev' = IF Snapshot.start_block = start_block'
                  /\ Snapshot.end_block = end_block'
               THEN Snapshot ELSE NoPrev
    /\ cp_before' = checkpoint
    /\ commit' = "none"
    /\ abandoned' = NoArg
    /\ skipped' = NoArg
    /\ current_block' = [t \in Tasks |-> start_block']
    /\ fetched' = [t \in Tasks |-> <<>>]
    /\ pc' = "fetching" /\ run_result' = "running"
    /\ batch_in' = NoBatch
    /\ inserted_count' = 0
    /\ UNCHANGED <<store, checkpoint, claim_store, analytics_store, height,
                   decVars, clsVars>>

\* main: --start-block, else --incremental reads the checkpoint, else 0;
\* --end-block, else the chain head.  process_all_...: nothing to do when
\* start_block >= end_block.
StartRun(limit, start_arg, incremental, end_arg) ==
    /\ pc = "idle"
    /\ runs < limit
    /\ runs' = runs + 1
    /\ start_block' = IF start_arg.given THEN start_arg.value
                      ELSE IF incremental THEN checkpoint ELSE 0
    /\ end_block' = IF end_arg.given THEN end_arg.value ELSE height
    /\ seeded' = (~start_arg.given /\ incremental)
    /\ prev' = IF Snapshot.start_block = start_block'
                  /\ Snapshot.end_block = end_block'
               THEN Snapshot ELSE NoPrev
    /\ cp_before' = checkpoint
    /\ commit' = "none"
    /\ abandoned' = NoArg
    /\ skipped' = NoArg
    /\ current_block' = [t \in Tasks |-> start_block']
    /\ fetched' = [t \in Tasks |-> <<>>]
    /\ IF start_block' >= end_block'
       THEN pc' = "idle" /\ run_result' = "noop"
       ELSE pc' = "fetching" /\ run_result' = "running"
    /\ batch_in' = NoBatch
    /\ inserted_count' = 0
    /\ UNCHANGED <<store, checkpoint, claim_store, analytics_store, height,
                   decVars, clsVars>>

\* an iteration that moves one cursor shared by the fetch tasks
FetchWindow_SharedCursor(task, r) ==
    /\ pc = "fetching"
    /\ current_block[task] < end_block
    /\ r \in ResponsesOf[task][current_block[task]]
                       [batch_end(current_block[task], end_block)][height]
    /\ fetched' = [fetched EXCEPT
                     ![task] = @ \o EmittedOf[task][current_block[task]][height][r]]
    /\ current_block' = [t \in Tasks |->
                            NextCurrentBlock(current_block[task], end_block, r)]
    /\ UNCHANGED <<storeVars, height, pc, runs, start_block, end_block, seeded,
                   run_result, commit, cp_before, prev, decVars, clsVars>>

\* one iteration of the while loop of a fetch task
FetchWindow(task, r) ==
    /\ pc = "fetching"
    /\ current_block[task] < end_block
    /\ r \in ResponsesOf[task][current_block[task]]
                       [batch_end(current_block[task], end_block)][height]
    /\ fetched' = [fetched EXCEPT
                     ![task] = @ \o EmittedOf[task][current_block[task]][height][r]]
    /\ current_block' = [current_block EXCEPT
                     ![task] = NextCurrentBlock(@, end_block, r)]
    /\ UNCHANGED <<storeVars, height, pc, runs, start_block, end_block, seeded,
                   run_result, commit, cp_before, prev, decVars, clsVars>>

\* the same, for whatever the service answers
FetchStep(task) ==
    /\ pc = "fetching"
    /\ current_block[task] < end_block
    /\ \E r \in ResponsesOf[task][current_block[task]]
                          [batch_end(current_block[task], end_block)][height] :
           FetchWindow(task, r)
    /\ UNCHANGED <<abandoned, skipped>>

\* the same, keeping the first block of the lowest window whose query raised
FetchStepTracked(task) ==
    /\ pc = "fetching"
    /\ current_block[task] < end_block
    /\ \E r \in ResponsesOf[task][current_block[task]]
                          [batch_end(current_block[task], end_block)][height] :
           /\ FetchWindow(task, r)
           /\ abandoned' =
                  IF r.kind # "error" THEN abandoned
                  ELSE IF abandoned.given
                       THEN Arg(Min(abandoned.value, current_block[task]))
                       ELSE Arg(current_block[task])
    /\ UNCHANGED skipped

\* the same, keeping also the lowest block that a response with data did not
\* deliver and the loop went past
FetchStepReached(task) ==
    /\ pc = "fetching"
    /\ current_block[task] < end_block
    /\ \E r \in ResponsesOf[task][current_block[task]]
                          [batch_end(current_block[task], end_block)][height] :
           /\ FetchWindow(task, r)
           /\ abandoned' =
                  IF r.kind # "error" THEN abandoned
                  ELSE IF abandoned.given
                       THEN Arg(Min(abandoned.value, current_block[task]))
                       ELSE Arg(current_block[task])
           /\ skipped' =
                  IF r.kind # "data" THEN skipped
                  ELSE IF r.upto >= NextCurrentBlock(current_block[task],
                                                     end_block, r)
                  THEN skipped
                  ELSE IF skipped.given THEN Arg(Min(skipped.value, r.upto))
                  ELSE Arg(r.upto)

\* an insert that writes the checkpoint in the same step
StoreTransactions_WithCheckpoint(db_error) ==
    /\ pc = "fetching"
    /\ \A t \in Tasks : current_block[t] >= end_block
    /\ store' = insert_transactions_batch(store, all_tx_data, db_error).table
    /\ inserted_count' =
           insert_transactions_batch(store, all_tx_data, db_error).count
    /\ batch_in' = all_tx_data
    /\ commit' = IF db_error THEN "error" ELSE "ok"
    /\ checkpoint' = end_block
    /\ pc' = "inserted"
    /\ UNCHANGED <<claim_store, analytics_store, height, runs, start_block,
                   end_block, seeded,
                   current_block, fetched, cp_before, prev, abandoned, skipped,
                   run_result, decVars, clsVars>>

\* after the gather: no transactions -> the checkpoint is written at once;
\* otherwise the batch insert
StoreTransactions(db_error) ==
    /\ pc = "fetching"
    /\ \A t \in Tasks : current_block[t] >= end_block
    /\ IF all_tx_data = <<>>
       THEN /\ checkpoint' = end_block
            /\ pc' = "idle"
            /\ run_result' = "done"
            /\ abandoned' = NoArg
            /\ skipped' = NoArg
            /\ UNCHANGED <<store, batch_in, inserted_count, commit>>
       ELSE /\ store' = insert_transactions_batch(store, all_tx_data, db_error).table
            /\ inserted_count' =
                   insert_transactions_batch(store, all_tx_data, db_error).count
            /\ batch_in' = all_tx_data
            /\ commit' = IF db_error THEN "error" ELSE "ok"
            /\ pc' = "inserted"
            /\ UNCHANGED <<checkpoint, run_result, abandoned, skipped>>
    /\ UNCHANGED <<claim_store, analytics_store, height, runs, start_block,
                   end_block, seeded, current_block, fetched, cp_before, prev,
                   decVars, clsVars>>

\* db.update_last_processed_block(end_block) after the insert returned
UpdateCheckpoint ==
    /\ pc = "inserted"
    /\ checkpoint' = end_block
    /\ pc' = "idle"
    /\ run_result' = "done"
    /\ abandoned' = NoArg
    /\ skipped' = NoArg
    /\ UNCHANGED <<store, claim_store, analytics_store, batch_in, inserted_count,
                   height, runs, start_block, end_block, seeded, current_block,
                   fetched, commit, cp_before, prev, decVars, clsVars>>

\* the process dies: its memory is lost, the database keeps what was
\* committed
Crash ==
    /\ pc \in {"fetching", "inserted"}
    /\ pc' = "idle"
    /\ run_result' = "crashed"
    /\ current_block' = [t \in Tasks |-> 0]
    /\ fetched' = [t \in Tasks |-> <<>>]
    /\ abandoned' = NoArg
    /\ skipped' = NoArg
    /\ UNCHANGED <<storeVars, height, runs, start_block, end_block, seeded,
                   commit, cp_before, prev, decVars, clsVars>>

\* the chain grows by a block
ChainGrows ==
    /\ height < MaxHeight
    /\ height' = height + 1
    /\ UNCHANGED <<storeVars, pc, runs, start_block, end_block, seeded,
                   current_block, fetched, run_result, commit, cp_before, prev,
                   abandoned, skipped,
                   decVars, clsVars>>

Next ==
    \/ \E args \in RunArgs : StartRun(MaxRuns, args[1], args[2], args[3])
    \/ \E t \in Tasks : FetchStep(t)
    \/ \E e \in BOOLEAN : StoreTransactions(e)
    \/ UpdateCheckpoint
    \/ Crash
    \/ ChainGrows

Spec == Init /\ [][Next]_vars

(***************************************************************************)
(* The pipeline with the abandoned windows of the current run on record.   *)
(***************************************************************************)
NextCancel ==
    \/ \E args \in RunArgs : StartRun(MaxRuns, args[1], args[2], args[3])
    \/ \E t \in Tasks : FetchStepTracked(t)
    \/ \E e \in BOOLEAN : StoreTransactions(e)
    \/ UpdateCheckpoint
    \/ Crash
    \/ ChainGrows

SpecCancel == Init /\ [][NextCancel]_vars

(***************************************************************************)
(* The pipeline with the undelivered blocks of the current run on record.  *)
(***************************************************************************)
NextReached ==
    \/ \E args \in RunArgs : StartRun(MaxRuns, args[1], args[2], args[3])
    \/ \E t \in Tasks : FetchStepReached(t)
    \/ \E e \in BOOLEAN : StoreTransactions(e)
    \/ UpdateCheckpoint
    \/ Crash
    \/ ChainGrows

SpecReached == Init /\ [][NextReached]_vars

(***************************************************************************)
(* The pipeline with the scheduling of the code: a run that was started    *)
(* goes on (the event loop runs both fetch tasks, then the insert and the  *)
(* checkpoint update); the process is not killed.                          *)
(***************************************************************************)
NextLive ==
    \/ \E args \in RunArgs : StartRun(MaxLiveRuns, args[1], args[2], args[3])
    \/ \E t \in Tasks : FetchStep(t)
    \/ \E e \in BOOLEAN : StoreTransactions(e)
    \/ UpdateCheckpoint
    \/ ChainGrows

SpecLive ==
    /\ Init
    /\ [][NextLive]_vars
    /\ \A t \in Tasks : WF_vars(FetchStep(t))
    /\ WF_vars(\E e \in BOOLEAN : StoreTransactions(e))
    /\ WF_vars(UpdateCheckpoint)

(***************************************************************************)
(* The two insert methods called directly, with any batch.                 *)
(***************************************************************************)
CallInsertTransactionsBatch(transactions, db_error) ==
    /\ store' = insert_transactions_batch(store, transactions, db_error).table
    /\ inserted_count' =
           insert_transactions_batch(store, transactions, db_error).count
    /\ batch_in' = transactions
    /\ UNCHANGED <<checkpoint, claim_store, analytics_store, runVars, decVars,
                   clsVars>>

CallInsertTransactions(transactions, db_error) ==
    /\ claim_store' =
           insert_transactions(claim_store, transactions, db_error).table
    /\ inserted_count' =
           insert_transactions(claim_store, transactions, db_error).count
    /\ batch_in' = transactions
    /\ UNCHANGED <<store, checkpoint, analytics_store, runVars, decVars,
                   clsVars>>

NextStore ==
    \/ \E b \in SeqsUpTo(BetRows, MaxBatch), e \in BOOLEAN :
          CallInsertTransactionsBatch(b, e)
    \/ \E b \in SeqsUpTo(ClaimRows, MaxBatch), e \in BOOLEAN :
          CallInsertTransactions(b, e)

SpecStore == Init /\ [][NextStore]_vars

(***************************************************************************)
(* Every operation of the repository that writes to a table of records,    *)
(* called directly: the batch insert and the bet id update on              *)
(* betting_transactions, the insert and the clean-up of BettingAnalyticsDB *)
(* on transactions.                                                        *)
(***************************************************************************)
CallAnalyticsInsertTransactions(transactions, db_error) ==
    /\ analytics_store' =
           analytics_insert_transactions(analytics_store, transactions,
                                         db_error).table
    /\ inserted_count' =
           analytics_insert_transactions(analytics_store, transactions,
                                         db_error).count
    /\ batch_in' = transactions
    /\ UNCHANGED <<store, checkpoint, claim_store, runVars, decVars, clsVars>>

CallUpdateBetIdsBatch(bet_id_map) ==
    /\ store' = update_bet_ids_batch(store, bet_id_map).table
    /\ UNCHANGED <<checkpoint, claim_store, analytics_store, batch_in,
                   inserted_count, runVars, decVars, clsVars>>

CallCleanupOldData(cutoff_date) ==
    /\ analytics_store' = cleanup_old_data(analytics_store, cutoff_date).table
    /\ UNCHANGED <<store, checkpoint, claim_store, batch_in, inserted_count,
                   runVars, decVars, clsVars>>

NextLedger ==
    \/ \E b \in SeqsUpTo(BetRows, MaxBatch), e \in BOOLEAN :
          CallInsertTransactionsBatch(b, e)
    \/ \E b \in SeqsUpTo(AnalyticsRows, MaxBatch), e \in BOOLEAN :
          CallAnalyticsInsertTransactions(b, e)
    \/ \E m \in BetIdMaps : CallUpdateBetIdsBatch(m)
    \/ \E d \in CutoffDates : CallCleanupOldData(d)

SpecLedger == Init /\ [][NextLedger]_vars

(***************************************************************************)
(* One insert call on one of the three databases, with any table the       *)
(* inserts can have built and any batch.                                   *)
(***************************************************************************)
Databases == {"betting", "claiming", "analytics"}

RowsOf(db) ==
    CASE db = "betting"   -> BetRows
      [] db = "claiming"  -> ClaimRows
      [] db = "analytics" -> AnalyticsRows

\* tables hold one row per tx_hash (PRIMARY KEY / UNIQUE)
TablesOf(db) ==
    {t \in SeqsUpTo(RowsOf(db), 2) :
        \A i, j \in DOMAIN t : t[i].tx_hash = t[j].tx_hash => i = j}

InsertInputs ==
    UNION {[db : {db}, table : TablesOf(db),
            transactions : SeqsUpTo(RowsOf(db), MaxBatch),
            db_error : BOOLEAN] : db \in Databases}

InsertResult(in) ==
    CASE in.db = "betting" ->
           [table  |-> insert_transactions_batch(in.table, in.transactions,
                                                 in.db_error).table,
            count  |-> insert_transactions_batch(in.table, in.transactions,
                                                 in.db_error).count,
            raised |-> FALSE]
      [] in.db = "claiming" ->
           insert_transactions(in.table, in.transactions, in.db_error)
      [] in.db = "analytics" ->
           analytics_insert_transactions(in.table, in.transactions,
                                         in.db_error)

InitInsertHarness ==
    /\ InitStore /\ InitRun /\ InitClassify
    /\ dec_in \in InsertInputs
    /\ dec_out = NoOut

InsertStep ==
    /\ ~dec_out.done
    /\ dec_out' = [done |-> TRUE, result |-> InsertResult(dec_in)]
    /\ UNCHANGED <<storeVars, runVars, dec_in, clsVars>>

NextInsert == InsertStep

SpecInsert == InitInsertHarness /\ [][NextInsert]_vars

(***************************************************************************)
(* insert_transactions_batch statement by statement on one connection:     *)
(* executemany writes record after record into the open transaction,       *)
(* commit makes the transaction durable, and get_connection closes the     *)
(* connection on the way out.  fail_at = 0: no error; fail_at = k in        *)
(* 1..Len(transactions): executemany raises sqlite3.Error at record k;      *)
(* fail_at = Len(transactions) + 1: commit raises it.                       *)
(***************************************************************************)
cursor_executemany(conn, transactions, fail_at) ==
    IF fail_at \in 1..Len(transactions)
    THEN [conn   |-> [conn EXCEPT !.pending =
                         InsertOrIgnore(conn.pending,
                                        SubSeq(transactions, 1, fail_at - 1))],
          raised |-> TRUE]
    ELSE [conn   |-> [conn EXCEPT !.pending =
                         InsertOrIgnore(conn.pending, transactions)],
          raised |-> FALSE]

conn_commit(conn, fails) ==
    IF fails THEN [conn |-> conn, raised |-> TRUE]
    ELSE [conn |-> [conn EXCEPT !.committed = conn.pending], raised |-> FALSE]

\* a close that commits the open transaction
conn_close_Commits(conn) == conn.pending

\* finally: conn.close(): the open transaction is not committed
conn_close(conn) == conn.committed

insert_transactions_batch_on_connection(table, transactions, fail_at) ==
    IF transactions = <<>> THEN [table |-> table, count |-> 0]
    ELSE LET \* sqlite3.connect: the file as it is, no transaction open
             conn == [committed |-> table, pending |-> table]
             executed == cursor_executemany(conn, transactions, fail_at)
             committed == conn_commit(executed.conn,
                                      fail_at = Len(transactions) + 1)
         IN  IF executed.raised
             THEN [table |-> conn_close(executed.conn), count |-> 0]
             ELSE IF committed.raised
             THEN [table |-> conn_close(committed.conn), count |-> 0]
             ELSE [table |-> conn_close(committed.conn),
                   count |-> Len(executed.conn.pending) - Len(table)]

BatchInputs ==
    {in \in [table : TablesOf("betting"),
             transactions : SeqsUpTo(RowsOf("betting"), MaxBatch),
             fail_at : 0..(MaxBatch + 1)] :
        in.fail_at <= IF in.transactions = <<>> THEN 0
                      ELSE Len(in.transactions) + 1}

InitBatchHarness ==
    /\ InitStore /\ InitRun /\ InitClassify
    /\ dec_in \in BatchInputs
    /\ dec_out = NoOut

BatchStep ==
    /\ ~dec_out.done
    /\ dec_out' = [done |-> TRUE,
                   result |-> insert_transactions_batch_on_connection(
                                  dec_in.table, dec_in.transactions,
                                  dec_in.fail_at)]
    /\ UNCHANGED <<storeVars, runVars, dec_in, clsVars>>

NextBatch == BatchStep

SpecBatch == InitBatchHarness /\ [][NextBatch]_vars

(***************************************************************************)
(* The loops of the two betting fetch tasks over the responses of one run, *)
(* with any responses: a response may list a transaction or a log more     *)
(* than once, and two responses may list the same one.                     *)
(***************************************************************************)
PageItems(task) ==
    IF task = "MON" THEN {ChainTxs[i] : i \in DOMAIN ChainTxs}
    ELSE {ChainLogs[i] : i \in DOMAIN ChainLogs}

PagesInputs(tasks) ==
    UNION {[task : {t},
            pages : SeqsUpTo(SeqsUpTo(PageItems(t), MaxPageLen), MaxPages)] :
           t \in tasks}

\* what one iteration appends to all_tx_data: the MON loop runs over
\* response.data.transactions, the Jerry loop over logs_by_tx.items()
RECURSIVE JerryPageRecords(_, _)
JerryPageRecords(page, hashes) ==
    IF hashes = <<>> THEN <<>>
    ELSE JerryBody(ChainTxs, LogsOf(page, Head(hashes)), Head(hashes), FALSE)
         \o JerryPageRecords(page, Tail(hashes))

PageRecords(task, page) ==
    IF task = "MON" THEN MonRecords(page, {})
    ELSE JerryPageRecords(page, HashesInOrder(page, {}))

RECURSIVE PagesRecords(_, _)
PagesRecords(task, pages) ==
    IF pages = <<>> THEN <<>>
    ELSE PageRecords(task, Head(pages)) \o PagesRecords(task, Tail(pages))

InitPagesHarness ==
    /\ InitStore /\ InitRun /\ InitDecode
    /\ cls_in \in PagesInputs(Tasks)
    /\ cls_out = NoOut

PagesStep ==
    /\ ~cls_out.done
    /\ cls_out' = [done |-> TRUE,
                   all_tx_data |-> PagesRecords(cls_in.task, cls_in.pages)]
    /\ UNCHANGED <<storeVars, runVars, decVars, cls_in>>

NextPages == PagesStep

SpecPages == InitPagesHarness /\ [][NextPages]_vars

(***************************************************************************)
(* Where a run starts, for the three entry points that choose a start      *)
(* block: main of betting_database.py, process_all_transactions_optimized  *)
(* called without main (start_block None unless given), and                *)
(* fetch_and_store_incremental_data of modules/data_processor.py.          *)
(***************************************************************************)
\* modules/data_processor.py: the start block used when the checkpoint is 0
ORIGINAL_START_BLOCK == 25358800

main_start_block(start_arg, incremental, last_processed_block) ==
    IF start_arg.given THEN start_arg.value
    ELSE IF incremental THEN last_processed_block
    ELSE 0

process_all_start_block(start_arg, last_processed_block) ==
    IF ~start_arg.given
    THEN IF last_processed_block = 0 THEN 0 ELSE last_processed_block
    ELSE start_arg.value

fetch_and_store_start_block(start_arg, last_processed_block) ==
    IF ~start_arg.given
    THEN IF last_processed_block = 0 THEN ORIGINAL_START_BLOCK
         ELSE last_processed_block
    ELSE start_arg.value

EntryPoints == {"main", "process_all_transactions_optimized",
                "fetch_and_store_incremental_data"}

\* --incremental is an argument of main only
StartInputs ==
    {in \in [entry : EntryPoints, start_arg : BlockArgs, incremental : BOOLEAN,
             last_processed_block : 0..MaxHeight] :
        /\ in.incremental => in.entry = "main"}

StartBlockOf(in) ==
    CASE in.entry = "main" ->
           process_all_start_block(
               Arg(main_start_block(in.start_arg, in.incremental,
                                    in.last_processed_block)),
               in.last_processed_block)
      [] in.entry = "process_all_transactions_optimized" ->
           process_all_start_block(in.start_arg, in.last_processed_block)
      [] in.entry = "fetch_and_store_incremental_data" ->
           fetch_and_store_start_block(in.start_arg, in.last_processed_block)

InitStartHarness ==
    /\ InitStore /\ InitRun /\ InitClassify
    /\ dec_in \in StartInputs
    /\ dec_out = NoOut

StartStep ==
    /\ ~dec_out.done
    /\ dec_out' = [done |-> TRUE, start_block |-> StartBlockOf(dec_in)]
    /\ UNCHANGED <<storeVars, runVars, dec_in, clsVars>>

NextStart == StartStep

SpecStart == InitStartHarness /\ [][NextStart]_vars

(***************************************************************************)
(* The decoders applied to one string: hex_to_int of betting_database.py   *)
(* and hex_to_int of claiming_database.py, as both are called on topics    *)
(* and data words of the response.                                         *)
(***************************************************************************)
DecodeAlphabet == {"0", "x", "1", "a", "g"}
DecodeInputs == {None} \cup SeqsUpTo(DecodeAlphabet, MaxLen)

InitDecodeHarness ==
    /\ InitStore /\ InitRun /\ InitClassify
    /\ dec_in \in DecodeInputs
    /\ dec_out = NoOut

DecodeStep ==
    /\ ~dec_out.done
    /\ dec_out' = [done |-> TRUE,
                   betting  |-> hex_to_int(dec_in),
                   claiming |-> claim_hex_to_int(dec_in)]
    /\ UNCHANGED <<storeVars, runVars, dec_in, clsVars>>

NextDecode == DecodeStep

SpecDecode == InitDecodeHarness /\ [][NextDecode]_vars

(***************************************************************************)
(* The card count decoders applied to one call-data string: the selector   *)
(* and the first word, then a word made of an optional sign or "0x", zeros *)
(* and a short tail; one character more, one character less, "" and None.  *)
(***************************************************************************)
CardTails ==
    SeqsUpTo({"0", "5", "g"}, MaxLen)
    \cup {<<"f", "4", "2", "4", "0">>,            \* 1,000,000
          <<"f", "4", "2", "4", "1">>,            \* 1,000,001
          <<"1", "e", "8", "4", "8", "0">>}       \* 2,000,000

CardHeads == {<<>>, <<"-">>, <<"+">>, Ox}

CardWords ==
    {hd \o Zeros(64 - Len(hd) - Len(tl)) \o tl : hd \in CardHeads, tl \in CardTails}

CallDataPrefix == SIG_HASH_1 \o Word(<<"4", "0">>)

CardInputs ==
    {None, <<>>}
    \cup {CallDataPrefix \o w : w \in CardWords}
    \cup {CallDataPrefix \o w \o <<"0">> : w \in CardWords}
    \cup {CallDataPrefix \o SubSeq(w, 1, 63) : w \in CardWords}

InitCardHarness ==
    /\ InitStore /\ InitRun /\ InitClassify
    /\ dec_in \in CardInputs
    /\ dec_out = NoOut

CardStep ==
    /\ ~dec_out.done
    /\ dec_out' = [done |-> TRUE,
                   cards   |-> calculate_cards_in_slip_from_tx(dec_in),
                   rarebet |-> rarebet_calculate_cards_in_slip_from_tx(dec_in)]
    /\ UNCHANGED <<storeVars, runVars, dec_in, clsVars>>

NextCards == CardStep

SpecCards == InitCardHarness /\ [][NextCards]_vars

(***************************************************************************)
(* The card count of the Jerry path applied to the logs grouped under one  *)
(* transaction hash, in the order of the response.                         *)
(***************************************************************************)
\* a log of a response, without the fields the loop does not read
ClsLog(address, topic0, topics_len, topic2, data) ==
    [address |-> address, topic0 |-> topic0, topics_len |-> topics_len,
     topic2 |-> topic2, data |-> data]

Words3 == Word(<<"1">>) \o Word(<<"2">>) \o Word(<<"8", "0">>)

CardLogPool ==
    {\* the card event with 3 as the fourth word
     ClsLog(RBS_B, CARDS_LOG_TOPIC_0, 4, Ox \o Word(<<"2", "b">>),
            Ox \o Words3 \o Word(<<"3">>)),
     \* mixed case, no "0x", 2,000,000 as the fourth word and a fifth word
     ClsLog(Mixed(RBS_B.s), Mixed(CARDS_LOG_TOPIC_0.s), 4, Ox \o Word(<<"1">>),
            Words3 \o Word(<<"1", "e", "8", "4", "8", "0">>) \o Word(<<"9">>)),
     \* three words only
     ClsLog(RBS_B, CARDS_LOG_TOPIC_0, 4, Ox \o Word(<<"1">>), Ox \o Words3),
     \* one character short of four words
     ClsLog(RBS_B, CARDS_LOG_TOPIC_0, 4, Ox \o Word(<<"1">>),
            Ox \o Words3 \o Zeros(63)),
     \* no data
     ClsLog(RBS_B, CARDS_LOG_TOPIC_0, 4, Ox \o Word(<<"1">>), None),
     \* a fourth word that is no hex number
     ClsLog(RBS_B, CARDS_LOG_TOPIC_0, 4, Ox \o Word(<<"1">>),
            Ox \o Words3 \o Word(<<"g">>)),
     \* another event of the RareBet contract
     ClsLog(RBS_B, TOPIC_0_LOG_A, 3, Ox \o Word(<<"1">>),
            Ox \o Words3 \o Word(<<"6">>)),
     \* the card event topic from the other contract
     ClsLog(RBS_A, CARDS_LOG_TOPIC_0, 4, Ox \o Word(<<"1">>),
            Ox \o Words3 \o Word(<<"8">>)),
     \* the Transfer log of the Jerry token
     ClsLog(CONTRACT_ADDRESS_2_LOG_A, TOPIC_0_LOG_A, 3, Ox \o Word(<<"1">>),
            Ox \o Word(<<"7">>))}

InitLogCardHarness ==
    /\ InitStore /\ InitRun /\ InitDecode
    /\ cls_in \in [tx_logs : SeqsUpTo(CardLogPool, MaxLogs)]
    /\ cls_out = NoOut

LogCardStep ==
    /\ ~cls_out.done
    /\ cls_out' = [done |-> TRUE,
                   cards_in_slip |-> jerry_cards_in_slip(cls_in.tx_logs),
                   rarebet |-> rarebet_cards_in_slip(cls_in.tx_logs)]
    /\ UNCHANGED <<storeVars, runVars, decVars, cls_in>>

NextLogCards == LogCardStep

SpecLogCards == InitLogCardHarness /\ [][NextLogCards]_vars

(***************************************************************************)
(* claiming_database.py, fetch_all_claiming_transactions_fixed: the body   *)
(* of the loop over response.data.transactions, for one transaction and    *)
(* the logs grouped under its hash.                                        *)
(***************************************************************************)
CLAIM_EVENT_TOPIC ==
    LC("0x9f930e45e5f186baa9054d3efb58f5f12c8894372119fb461d8abd2b9418cf2d")
TRANSFER_EVENT_TOPIC ==
    LC("0xddf252ad1be2c89b69c2b068fc378daa952ba7f163c4a11628f55a4df523b3ef")
RBS_CONTRACT_ADDRESSES == {RBS_A, RBS_B}
JERRY_CONTRACT_ADDRESS == LC("0xda054a96254776346386060c480b42a10c870cd2")
RBSD_CONTRACT_ADDRESS  == Mixed("0x8a86d48c867b76ff74a36d3af4d2f1e707b143ed")

IsClaimLog(l) ==
    /\ CTruthy(l.address)
    /\ Lower(l.address) \in {Lower(a) : a \in RBS_CONTRACT_ADDRESSES}
    /\ l.topics_len > 0 /\ CTruthy(l.topic0)
    /\ Lower(l.topic0) = Lower(CLAIM_EVENT_TOPIC)

IsTransferLog(l, token_address) ==
    /\ CTruthy(l.address)
    /\ Lower(l.address) = Lower(token_address)
    /\ l.topics_len > 0 /\ CTruthy(l.topic0)
    /\ Lower(l.topic0) = Lower(TRANSFER_EVENT_TOPIC)

has_rbs_claiming_log(tx_logs) == \E i \in DOMAIN tx_logs : IsClaimLog(tx_logs[i])

has_jerry_transfer_log(tx_logs) ==
    \E i \in DOMAIN tx_logs : IsTransferLog(tx_logs[i], JERRY_CONTRACT_ADDRESS)

has_rbsd_transfer_log(tx_logs) ==
    \E i \in DOMAIN tx_logs : IsTransferLog(tx_logs[i], RBSD_CONTRACT_ADDRESS)

\* the branch of the if / elif / else
claim_category_RbsdFirst(tx_logs) ==
    IF has_rbsd_transfer_log(tx_logs) THEN "RBSD"
    ELSE IF has_jerry_transfer_log(tx_logs) THEN "JERRY"
    ELSE "MON"

claim_category(tx_logs) ==
    IF has_jerry_transfer_log(tx_logs) THEN "JERRY"
    ELSE IF has_rbsd_transfer_log(tx_logs) THEN "RBSD"
    ELSE "MON"

\* claim_amount after a log with the amount in data[2:66]: the conversion
\* sits in a try/except, a failure keeps the value
claim_amount_after(l, claim_amount) ==
    IF Truthy(l.data) /\ Len(l.data) >= 66
    THEN LET r == claim_hex_to_int(Slice(l.data, 2, 66))
         IN  IF r.raised THEN claim_amount ELSE r.value
    ELSE claim_amount

HasBetIdTopic(l) == l.topics_len >= 3 /\ Truthy(l.topic2)

\* the loop over tx_logs of the JERRY and RBSD branches; acc is
\* [bet_id, claim_amount, raised], and an exception ends the loop
RECURSIVE TokenLoop(_, _, _)
TokenLoop(token_address, tx_logs, acc) ==
    IF tx_logs = <<>> \/ acc.raised THEN acc
    ELSE LET log == Head(tx_logs)
         IN  IF IsTransferLog(log, token_address)
             THEN TokenLoop(token_address, Tail(tx_logs),
                      [acc EXCEPT !.claim_amount = claim_amount_after(log, @)])
             ELSE IF IsClaimLog(log) /\ HasBetIdTopic(log)
             THEN TokenLoop(token_address, Tail(tx_logs),
                      [acc EXCEPT
                         !.bet_id = claim_hex_to_int(log.topic2).value,
                         !.raised = claim_hex_to_int(log.topic2).raised])
             ELSE TokenLoop(token_address, Tail(tx_logs), acc)

\* the loop of the MON branch: the first claim log, then break
MonLoop(tx_logs, acc) ==
    LET claim_logs == SelectSeq(tx_logs, IsClaimLog)
    IN  IF claim_logs = <<>> THEN acc
        ELSE IF HasBetIdTopic(claim_logs[1])
                 /\ claim_hex_to_int(claim_logs[1].topic2).raised
        THEN [acc EXCEPT !.raised = TRUE]
        ELSE [bet_id |-> IF HasBetIdTopic(claim_logs[1])
                         THEN claim_hex_to_int(claim_logs[1].topic2).value
                         ELSE 0,
              claim_amount |-> claim_amount_after(claim_logs[1], acc.claim_amount),
              raised |-> FALSE]

ClaimLoop(tx_logs) ==
    LET acc == [bet_id |-> 0, claim_amount |-> 0, raised |-> FALSE]
    IN  CASE claim_category(tx_logs) = "JERRY" ->
                 TokenLoop(JERRY_CONTRACT_ADDRESS, tx_logs, acc)
          [] claim_category(tx_logs) = "RBSD" ->
                 TokenLoop(RBSD_CONTRACT_ADDRESS, tx_logs, acc)
          [] OTHER -> MonLoop(tx_logs, acc)

ClaimRecord(tx, token, acc) ==
    [timestamp    |-> claim_hex_to_int(tx.block_timestamp).value,
     tx_hash      |-> tx.hash,
     from_address |-> tx.from_,
     to_address   |-> tx.to.s,
     token        |-> token,
     amount       |-> acc.claim_amount,
     bet_id       |-> acc.bet_id,
     block_number |-> tx.block_number]

\* what the body does with one transaction: the category it chooses, the
\* records it appends, and whether it leaves by an exception
ClaimBody(tx, tx_logs) ==
    IF \/ tx.status # 1
       \/ claim_hex_to_int(tx.block_timestamp).value = 0
       \/ ~has_rbs_claiming_log(tx_logs)
    THEN [category |-> "none", emitted |-> <<>>, raised |-> FALSE]
    ELSE LET acc == ClaimLoop(tx_logs)
         IN  [category |-> claim_category(tx_logs),
              emitted  |-> IF ~acc.raised /\ acc.claim_amount > 0
                           THEN <<ClaimRecord(tx, claim_category(tx_logs), acc)>>
                           ELSE <<>>,
              raised   |-> acc.raised]

(***************************************************************************)
(* The bodies of both betting fetch loops applied to one transaction of    *)
(* block 1 and the logs the response lists for it: any selector, either    *)
(* status, any mix of Transfer and RareBet logs.                           *)
(***************************************************************************)
SIG_HASH_OTHER == <<"0", "x", "a", "9", "0", "5", "9", "c", "b", "b">>

SelectorTx(status, input) ==
    [hash |-> "0xt1", from_ |-> "0xalice", to |-> RBS_B, status |-> status,
     block_number |-> 1, value |-> <<"0", "x", "5">>, input |-> input]

SelectorTxs ==
    {SelectorTx(st, sel \o Word(<<"4", "0">>) \o Word(<<"3">>)) :
        st \in {0, 1}, sel \in {SIG_HASH_1, SIG_HASH_2, SIG_HASH_OTHER}}

SelectorLogPool ==
    {\* the Transfer log of the Jerry token
     ClsLog(CONTRACT_ADDRESS_2_LOG_A, TOPIC_0_LOG_A, 3, Ox \o Word(<<"1">>),
            Ox \o Word(<<"7">>)),
     \* the card event of the RareBet contract the Jerry bets go to
     ClsLog(RBS_B, CARDS_LOG_TOPIC_0, 4, Ox \o Word(<<"2", "b">>),
            Ox \o Words3 \o Word(<<"3">>)),
     \* the card event of the other RareBet contract
     ClsLog(RBS_A, CARDS_LOG_TOPIC_0, 4, Ox \o Word(<<"2", "a">>), Ox)}

SelectorInputs == [tx : SelectorTxs, tx_logs : SeqsUpTo(SelectorLogPool, MaxLogs)]

InitSelectorHarness ==
    /\ InitStore /\ InitRun /\ InitDecode
    /\ cls_in \in SelectorInputs
    /\ cls_out = NoOut

\* mon_data and jerry_data of a run whose responses list the transaction
SelectorStep ==
    /\ ~cls_out.done
    /\ cls_out' = [done |-> TRUE,
                   mon_data   |-> MonBody(cls_in.tx, FALSE),
                   jerry_data |-> JerryBody(<<cls_in.tx>>, cls_in.tx_logs,
                                            cls_in.tx.hash, FALSE)]
    /\ UNCHANGED <<storeVars, runVars, decVars, cls_in>>

NextSelector == SelectorStep

SpecSelector == InitSelectorHarness /\ [][NextSelector]_vars

(***************************************************************************)
(* The classifier applied to one transaction of a response and its logs,   *)
(* in the order of the response.                                           *)
(***************************************************************************)
ClsLogPool ==
    {\* the claim event with bet id 42 and amount 5
     ClsLog(RBS_A, CLAIM_EVENT_TOPIC, 3, Ox \o Word(<<"2", "a">>),
            Ox \o Word(<<"5">>)),
     \* the claim event with a topic 2 that is no hex number
     ClsLog(Mixed(RBS_B.s), CLAIM_EVENT_TOPIC, 3, Ox \o <<"g">>, Ox),
     \* Transfer logs of the JERRY token: 7, and 0
     ClsLog(JERRY_CONTRACT_ADDRESS, TRANSFER_EVENT_TOPIC, 3,
            Ox \o Word(<<"1">>), Ox \o Word(<<"7">>)),
     ClsLog(JERRY_CONTRACT_ADDRESS, Mixed(TRANSFER_EVENT_TOPIC.s), 3,
            Ox \o Word(<<"1">>), Ox \o Word(<<"0">>)),
     \* Transfer logs of the RBSD token: 9, and data that is no hex number
     ClsLog(RBSD_CONTRACT_ADDRESS, TRANSFER_EVENT_TOPIC, 3,
            Ox \o Word(<<"1">>), Ox \o Word(<<"9">>)),
     ClsLog(Lower(RBSD_CONTRACT_ADDRESS), TRANSFER_EVENT_TOPIC, 3,
            Ox \o Word(<<"1">>), Ox \o Word(<<"g">>)),
     \* a Transfer log of another token
     ClsLog(LC("0x0123"), TRANSFER_EVENT_TOPIC, 3,
            Ox \o Word(<<"1">>), Ox \o Word(<<"3">>))}

ClsTx(status, block_timestamp) ==
    [hash |-> "0xc1", from_ |-> "0xdave", to |-> RBS_A, status |-> status,
     block_number |-> 1, block_timestamp |-> block_timestamp]

ClsTxs == {ClsTx(st, ts) : st \in {0, 1}, ts \in {BlockTimestamp(1), None}}

ClsInputs == [tx : ClsTxs, tx_logs : SeqsUpTo(ClsLogPool, MaxLogs)]

InitClassifyHarness ==
    /\ InitStore /\ InitRun /\ InitDecode
    /\ cls_in \in ClsInputs
    /\ cls_out = NoOut

ClassifyStep ==
    /\ ~cls_out.done
    /\ cls_out' = [done |-> TRUE, body |-> ClaimBody(cls_in.tx, cls_in.tx_logs)]
    /\ UNCHANGED <<storeVars, runVars, decVars, cls_in>>

NextClassify == ClassifyStep

SpecClassify == InitClassifyHarness /\ [][NextClassify]_vars

(***************************************************************************)
(* Properties of the betting pipeline.                                     *)
(***************************************************************************)
SameRange == prev.start_block = start_block /\ prev.end_block = end_block

\* C2: a run over the block range of a completed run, in which the service
\* delivered the same records, leaves the table exactly as the first run left
\* it: the same rows with the same field values.
C2_RunIdempotent ==
    (run_result = "done" /\ prev.kind = "done" /\ SameRange
        /\ batch_in = prev.fetched)
    => store = prev.store

\* C2, its case: the second run over the range has inserted the records of
\* the first again, and committed.
C2_Witness ==
    /\ run_result = "done" /\ prev.kind = "done" /\ SameRange
    /\ batch_in = prev.fetched /\ Len(batch_in) = 2
    /\ commit = "ok" /\ Len(store) = 2

\* C3: no step of the pipeline lowers the stored last_processed_block.
C3_MonotonicCheckpoint == [][checkpoint' >= checkpoint]_vars

\* C4: update_last_processed_block is called for a run that fetched records
\* only when the insert of these records committed.
C4_CheckpointAfterCommit == [][UpdateCheckpoint => commit = "ok"]_vars

\* after a crash the checkpoint is the one the run found; the table after the
\* rerun is the table the crashed run's insert left
C5_CrashState ==
    /\ run_result = "crashed" => checkpoint = cp_before
    /\ (run_result = "done" /\ prev.kind = "crashed" /\ prev.seeded /\ seeded
           /\ SameRange /\ batch_in = prev.fetched)
       => store = prev.store

\* a checkpoint-seeded run started after a crashed checkpoint-seeded run
C5_Restart ==
    (run_result = "crashed" /\ seeded /\ runs' = runs + 1 /\ seeded')
    => start_block' = start_block

\* C5: a run that dies leaves the checkpoint as it found it; the checkpoint-
\* seeded run after a crashed checkpoint-seeded run starts at the same block;
\* and when that rerun has fetched the records again and is done, the table
\* is the one the crashed run's insert left.
C5_ResumeAfterCrash == []C5_CrashState /\ [][C5_Restart]_vars

\* C5, its case: the rerun after a crash between insert and checkpoint
\* update is done and has inserted the same records.
C5_Witness ==
    /\ run_result = "done" /\ prev.kind = "crashed" /\ prev.seeded /\ seeded
    /\ SameRange /\ batch_in = prev.fetched /\ batch_in # <<>>
    /\ commit = "ok" /\ checkpoint = end_block

\* C6: after a response with data the loop resumes where the delivered data
\* ends (r.upto, which is next_block whenever the service reports it), so
\* no block before batch_end is left unqueried.
C6_ResumeAtNextBlock ==
    [][\A t \in Tasks :
         \A r \in Responses(t, current_block[t],
                            batch_end(current_block[t], end_block), height) :
            (r.kind = "data" /\ FetchWindow(t, r))
            => current_block'[t] = r.upto]_vars

\* C7: when the query of a window raises, the loop stays at the window.
C7_RetrySameWindow ==
    [][\A t \in Tasks :
         \A r \in Responses(t, current_block[t],
                            batch_end(current_block[t], end_block), height) :
            (r.kind = "error" /\ FetchWindow(t, r))
            => current_block'[t] = current_block[t]]_vars

UniqueHashes(table) ==
    \A i, j \in DOMAIN table : table[i].tx_hash = table[j].tx_hash => i = j

\* C1: whatever batches the insert methods are called with, no two rows of
\* a table have the same tx_hash, and a call adds at most one row per
\* tx_hash of its batch.
C1_AtMostOnce ==
    /\ UniqueHashes(store)
    /\ UniqueHashes(claim_store)
    /\ inserted_count <= Cardinality({batch_in[i].tx_hash : i \in DOMAIN batch_in})

\* C1, its case: the batch of the last call held the same record twice and
\* the table holds it once.
C1_Witness ==
    /\ Len(batch_in) = 2 /\ batch_in[1] = batch_in[2]
    /\ inserted_count = 1
    /\ store = <<batch_in[1]>>

\* C10: neither hex_to_int raises, whatever the string.
C10_DecodeNeverRaises ==
    dec_out.done => ~dec_out.betting.raised /\ ~dec_out.claiming.raised

Reverse(q) == [i \in 1..Len(q) |-> q[Len(q) + 1 - i]]

LogSet(q) == {q[i] : i \in DOMAIN q}

\* status 1, a block timestamp, and the claim event among the logs
PassesGates(in) ==
    /\ in.tx.status = 1
    /\ in.tx.block_timestamp # None
    /\ \E l \in LogSet(in.tx_logs) : IsClaimLog(l)

\* C8: a successful transaction with the claim event among its logs gets the
\* category JERRY when a JERRY Transfer log is among them, else RBSD when an
\* RBSD Transfer log is, else MON; the category is the same for the logs in
\* reverse order, and a record that is emitted carries it as its token.
C8_ClassificationPriority ==
    (cls_out.done /\ PassesGates(cls_in))
    => /\ cls_out.body.category =
             IF \E l \in LogSet(cls_in.tx_logs) :
                    IsTransferLog(l, JERRY_CONTRACT_ADDRESS) THEN "JERRY"
             ELSE IF \E l \in LogSet(cls_in.tx_logs) :
                    IsTransferLog(l, RBSD_CONTRACT_ADDRESS) THEN "RBSD"
             ELSE "MON"
       /\ cls_out.body.category =
             ClaimBody(cls_in.tx, Reverse(cls_in.tx_logs)).category
       /\ \A i \in DOMAIN cls_out.body.emitted :
             cls_out.body.emitted[i].token = cls_out.body.category

\* C8, its case: the claim event, then an RBSD Transfer, then a JERRY
\* Transfer; a JERRY record was emitted.
C8_Witness ==
    /\ cls_out.done /\ PassesGates(cls_in)
    /\ Len(cls_in.tx_logs) = 3
    /\ IsClaimLog(cls_in.tx_logs[1])
    /\ IsTransferLog(cls_in.tx_logs[2], RBSD_CONTRACT_ADDRESS)
    /\ IsTransferLog(cls_in.tx_logs[3], JERRY_CONTRACT_ADDRESS)
    /\ Len(cls_out.body.emitted) = 1
    /\ cls_out.body.emitted[1].token = "JERRY"
    /\ cls_out.body.emitted[1].amount = 7

\* a step inside a run: the target stays, a loop that moves moves forward
C9_Progress ==
    (pc = "fetching" /\ pc' = "fetching")
    => /\ end_block' = end_block
       /\ \A t \in Tasks : current_block'[t] # current_block[t]
                           => current_block'[t] > current_block[t]

\* the word at characters 74..138 of the call-data, and whether it is made of
\* hex digits only
CardWordOf(tx_input) == Slice(tx_input, 74, 138)

IsHexWord(w) == \A i \in DOMAIN w : w[i] \in HexDigits

\* C11: the card count of call-data of at least 138 characters is the
\* unsigned integer of characters 74..138 when it is at most 1,000,000 and 0
\* when it is more; it is 0 for shorter call-data and for a word with a
\* character that is no hex digit.
C11_CardCountFromInput ==
    dec_out.done
    => LET expected ==
               IF dec_in = None \/ Len(dec_in) < 138 THEN 0
               ELSE IF ~IsHexWord(CardWordOf(dec_in)) THEN 0
               ELSE IF HexVal(CardWordOf(dec_in)) > 1000000 THEN 0
               ELSE HexVal(CardWordOf(dec_in))
       IN  dec_out.cards = expected /\ dec_out.rarebet = expected

\* the logs of the card event of the RareBet contract, in response order
CoreLogIndexes(q) ==
    {i \in DOMAIN q :
        /\ Lower(q[i].address) = Lower(CONTRACT_ADDRESS_2_LOG_B)
        /\ Lower(q[i].topic0) = Lower(CARDS_LOG_TOPIC_0)}

FirstCoreLog(q) ==
    q[CHOOSE i \in CoreLogIndexes(q) : \A j \in CoreLogIndexes(q) : i <= j]

DataHex(l) ==
    IF l.data = None THEN <<>>
    ELSE IF Len(l.data) >= 2 /\ SubSeq(l.data, 1, 2) = Ox
    THEN SubSeq(l.data, 3, Len(l.data))
    ELSE l.data

\* C12: the card count of a token bet is the unsigned integer of characters
\* 192..256 of the card event log's data without its "0x", and 0 when that
\* data has fewer than 256 characters or there is no card event log.
C12_CardCountFromLog ==
    cls_out.done
    => IF CoreLogIndexes(cls_in.tx_logs) = {}
       THEN cls_out.cards_in_slip = 0 /\ cls_out.rarebet = Returned(0)
       ELSE LET d == DataHex(FirstCoreLog(cls_in.tx_logs))
            IN  IF Len(d) < 256
                THEN cls_out.cards_in_slip = 0 /\ cls_out.rarebet = Returned(0)
                ELSE IsHexWord(SubSeq(d, 193, 256))
                     => /\ cls_out.cards_in_slip = HexVal(SubSeq(d, 193, 256))
                        /\ cls_out.rarebet = Returned(HexVal(SubSeq(d, 193, 256)))

\* C12, its case: a log of another event, then the card event with five
\* words of data and no "0x"; the count is the fourth word.
C12_Witness ==
    /\ cls_out.done
    /\ Len(cls_in.tx_logs) = 2
    /\ CoreLogIndexes(cls_in.tx_logs) = {2}
    /\ Len(cls_in.tx_logs[2].data) = 320
    /\ cls_out.cards_in_slip = 2000000

\* the card event logs of a transaction on the chain, from either RareBet
\* contract, and the bet id its first one carries
CoreEventLogsOf(tx_hash) ==
    SelectSeq(ChainLogs, LAMBDA l :
        /\ l.transaction_hash = tx_hash
        /\ Lower(l.address) \in CONTRACT_ADDRESSES_1
        /\ Lower(l.topic0) = CARDS_LOG_TOPIC_0)

CoreBetId(tx_hash) ==
    IF CoreEventLogsOf(tx_hash) = <<>> THEN 0
    ELSE IF CoreEventLogsOf(tx_hash)[1].topics_len < 3 THEN 0
    ELSE HexVal(PyIntDigits(CoreEventLogsOf(tx_hash)[1].topic2))

\* C13: the bet_id of every stored record is the value of topics[2] of the
\* card event log of its transaction, and 0 only when the transaction has no
\* such log or the log has fewer than three topics.
C13_BetIdFromCoreLog ==
    \A i \in DOMAIN store : store[i].bet_id = CoreBetId(store[i].tx_hash)

Rows(table) == {table[i] : i \in DOMAIN table}

\* C14: every step of an operation that writes to a table of records keeps
\* every stored record as it is: each record of the table before the step is
\* in the table after it, with the same field values.
C14_AppendOnly ==
    [][/\ Rows(store) \subseteq Rows(store')
       /\ Rows(claim_store) \subseteq Rows(claim_store')
       /\ Rows(analytics_store) \subseteq Rows(analytics_store')]_vars

HashesOf(q) == {q[i].tx_hash : i \in DOMAIN q}

\* C15: an insert call that the database completes returns the number of rows
\* it added, and that is the number of distinct tx_hashes of the batch that
\* were not in the table before; every record of the batch is attempted (its
\* tx_hash is in the table afterwards), the rows that were there are kept and
\* nothing is raised for a tx_hash that already exists.
C15_InsertReturnValue ==
    (dec_out.done /\ ~dec_in.db_error) =>
        /\ ~dec_out.result.raised
        /\ dec_out.result.count = Len(dec_out.result.table) - Len(dec_in.table)
        /\ dec_out.result.count =
               Cardinality(HashesOf(dec_in.transactions) \ HashesOf(dec_in.table))
        /\ HashesOf(dec_out.result.table) =
               HashesOf(dec_in.table) \cup HashesOf(dec_in.transactions)
        /\ Rows(dec_in.table) \subseteq Rows(dec_out.result.table)

\* a batch of two records: one tx_hash is already stored, the other is new
C15_Witness ==
    /\ dec_out.done
    /\ ~dec_in.db_error
    /\ Len(dec_in.transactions) = 2
    /\ dec_in.table # <<>>
    /\ \E i \in DOMAIN dec_in.transactions :
           dec_in.transactions[i].tx_hash \in HashesOf(dec_in.table)
    /\ dec_out.result.count = 1

\* C16: once the query of a window has raised in a run, no step writes a
\* checkpoint beyond the first block of that window: the checkpoint keeps its
\* value, or is set to a block the abandoned window does not reach.
C16_CancelledFetch ==
    [][abandoned.given =>
          \/ checkpoint' = checkpoint
          \/ checkpoint' <= abandoned.value]_vars

\* C17: every stored record belongs to a transaction that has a card event
\* log (the core-event topic0, emitted by one of the core contracts) on the
\* chain.
C17_CoreEventRequired ==
    \A i \in DOMAIN store : CoreEventLogsOf(store[i].tx_hash) # <<>>

\* C18: the list a fetch task returns holds at most one record per
\* transaction hash, whatever the responses list.
C18_NoDoubleEmission ==
    cls_out.done => UniqueHashes(cls_out.all_tx_data)

StatusOnChain(tx_hash) == TxWithHash(ChainTxs, tx_hash)[1].status

\* C19: every record a fetch task has emitted and every stored record comes
\* from a transaction whose status is 1.
C19_OnlySuccessful ==
    /\ \A i \in DOMAIN store : StatusOnChain(store[i].tx_hash) = 1
    /\ \A t \in Tasks : \A i \in DOMAIN fetched[t] :
           StatusOnChain(fetched[t][i].tx_hash) = 1

\* both windows with a reverted bet (0xf1 in block 1, 0xg2 in block 2, each
\* with its logs) were fetched and their successful bets stored
C19_Witness ==
    /\ HasHash(store, "0xm1")
    /\ HasHash(store, "0xj2")
    /\ \E i \in DOMAIN ChainLogs : ChainLogs[i].transaction_hash = "0xf1"
    /\ \E i \in DOMAIN ChainLogs : ChainLogs[i].transaction_hash = "0xg2"

\* a log whose data word is a well-formed amount of 0: dropping its
\* transaction is no decode anomaly
ZeroAmountLog(l) == l.data = Ox \o Word(<<"0">>)

\* C20: a successful transaction with the claim event among its logs, none
\* of them carrying a well-formed amount of 0, is emitted as one record and
\* nothing is raised, also when its amount or its bet id does not decode.
C20_DecodeAnomalyKeepsRecord ==
    (/\ cls_out.done
     /\ PassesGates(cls_in)
     /\ \A l \in LogSet(cls_in.tx_logs) : ~ZeroAmountLog(l))
    => /\ ~cls_out.body.raised
       /\ Len(cls_out.body.emitted) = 1

\* C9: every iteration of a fetch loop strictly increases current_block, the
\* target of a run does not move while the chain grows, and a run that was
\* started reaches Done.
C9_Termination ==
    /\ [][C9_Progress]_vars
    /\ (run_result = "running") ~> (run_result = "done")

\* C9, its case: a run over a whole window is done with records fetched, and
\* the chain head is beyond its target.
C9_Witness ==
    /\ run_result = "done"
    /\ end_block - start_block >= BATCH_SIZE
    /\ batch_in # <<>>
    /\ height > end_block

\* C21: the card count a fetch loop puts in a record lies between 0 and
\* 1,000,000, for the count read from the logs as for the count read from the
\* call-data.
C21_CardCountBound ==
    cls_out.done => cls_out.cards_in_slip \in 0..1000000

\* C22: a run whose windows were all answered and gave no record ends with
\* the checkpoint at end_block, and every block below that checkpoint was
\* delivered by a response of the run.
C22_EmptyWindowAdvances ==
    [][(/\ pc = "fetching" /\ all_tx_data = <<>> /\ ~abandoned.given
        /\ pc' = "idle" /\ run_result' = "done")
       => /\ checkpoint' = end_block
          /\ skipped.given => checkpoint' <= skipped.value]_vars

\* C23: in a run that started at the checkpoint, once both fetch tasks have
\* processed their first window the checkpoint has been written for it.
C23_PerWindowCheckpoint ==
    (/\ pc = "fetching" /\ seeded
     /\ \A t \in Tasks : current_block[t] > start_block
     /\ \E t \in Tasks : current_block[t] < end_block)
    => checkpoint > start_block

\* C24: an entry point called without a start block starts the run at the
\* stored last_processed_block (0 when none was written).
C24_StartAtCheckpoint ==
    (dec_out.done /\ ~dec_in.start_arg.given)
    => dec_out.start_block = dec_in.last_processed_block

\* C25: every window query of a fetch task starts at or above the start block
\* of the run and ends at or below its end block; the next query of the task
\* starts above this one and at or below the end of the window (at the
\* next_block of the answer or at the end of the window).
C25_WindowOrder ==
    [][\A t \in Tasks :
         (pc = "fetching" /\ pc' = "fetching"
             /\ current_block'[t] # current_block[t])
         => /\ start_block <= current_block[t]
            /\ batch_end(current_block[t], end_block) <= end_block
            /\ current_block[t] < current_block'[t]
            /\ current_block'[t] <= batch_end(current_block[t], end_block)]_vars

\* C25, its case: a run over more blocks than one window holds is done, so
\* each task has queried at least two windows.
C25_Witness ==
    /\ run_result = "done"
    /\ end_block - start_block > BATCH_SIZE
    /\ \A t \in Tasks : current_block[t] = end_block

\* the fetch tasks of the run that hold the semaphore and have not returned
RunningTasks == {t \in Tasks : pc = "fetching" /\ current_block[t] < end_block}

C26_TaskStep(t) ==
    /\ pc = "fetching" /\ pc' = "fetching"
    /\ current_block'[t] # current_block[t] \/ fetched'[t] # fetched[t]

\* C26: at most MAX_CONCURRENT_REQUESTS fetch tasks run at once; a step of one
\* task, wherever it falls between the steps of the other, leaves the store,
\* the checkpoint and the cursor and the list of the other task as they are;
\* the batch that is inserted is the MON list followed by the Jerry list.
C26_ConcurrentFetches ==
    /\ [](Cardinality(RunningTasks) <= MAX_CONCURRENT_REQUESTS)
    /\ [][\A t \in Tasks :
            C26_TaskStep(t)
            => /\ store' = store /\ checkpoint' = checkpoint
               /\ \A u \in Tasks \ {t} :
                     current_block'[u] = current_block[u] /\ fetched'[u] = fetched[u]]_vars
    /\ [][(pc = "fetching" /\ pc' = "inserted")
          => batch_in' = fetched["MON"] \o fetched["Jerry"]]_vars

\* C26, its case: both tasks have queried a window and neither has returned,
\* and the MON task has a record in its list.
C26_Witness ==
    /\ pc = "fetching"
    /\ \A t \in Tasks : start_block < current_block[t] /\ current_block[t] < end_block
    /\ fetched["MON"] # <<>>

\* C27: an insert call leaves every row that was in the table where it was
\* and as it was, whatever the batch holds under the tx_hash of the row.
C27_FirstWriterWins ==
    dec_out.done
    => \A i \in DOMAIN dec_in.table :
          /\ i \in DOMAIN dec_out.result.table
          /\ dec_out.result.table[i] = dec_in.table[i]

\* C27, its case: the table holds a row with bet_id 0 and the batch brings
\* the same tx_hash with bet_id 42; the call completed and the row still has
\* bet_id 0.
C27_Witness ==
    /\ dec_out.done /\ ~dec_in.db_error /\ dec_in.db = "betting"
    /\ dec_in.table = <<BetRow("0xaa", 0)>>
    /\ dec_in.transactions = <<BetRow("0xaa", 42)>>
    /\ dec_out.result.table = <<BetRow("0xaa", 0)>>

\* C28: a run started with start_block >= end_block ends at once: no window
\* is queried, no list is built, and the store and the checkpoint are as they
\* were.
C28_NoOpRun ==
    [][(runs' = runs + 1 /\ start_block' >= end_block')
       => /\ pc' = "idle" /\ run_result' = "noop"
          /\ store' = store /\ checkpoint' = checkpoint
          /\ inserted_count' = 0
          /\ \A t \in Tasks : fetched'[t] = <<>> /\ current_block'[t] = start_block']_vars

\* C28, its case: an incremental run right after a run that stored records
\* and wrote the checkpoint: start_block = end_block.
C28_Witness ==
    /\ run_result = "noop" /\ seeded
    /\ start_block = end_block /\ checkpoint = start_block
    /\ store # <<>>

\* C29: a transaction is emitted by at most one of the two fetch tasks, by
\* the MON task only with the MON selector and by the Jerry task only with
\* the Jerry selector; the rows the insert stores are the same whichever list
\* comes first in the batch.
C29_DisjointCategories ==
    cls_out.done
    => /\ HashesOf(cls_out.mon_data) \cap HashesOf(cls_out.jerry_data) = {}
       /\ cls_out.mon_data # <<>> => Slice(cls_in.tx.input, 0, 10) = SIG_HASH_1
       /\ cls_out.jerry_data # <<>> => Slice(cls_in.tx.input, 0, 10) = SIG_HASH_2
       /\ Rows(InsertOrIgnore(<<>>, cls_out.mon_data \o cls_out.jerry_data))
            = Rows(InsertOrIgnore(<<>>, cls_out.jerry_data \o cls_out.mon_data))

\* C29, its case: a successful transaction with the MON selector whose logs
\* are the Transfer of the Jerry token and the card event of the RareBet
\* contract: the MON task emits it, the Jerry task does not.
C29_Witness ==
    /\ cls_out.done
    /\ Slice(cls_in.tx.input, 0, 10) = SIG_HASH_1 /\ cls_in.tx.status = 1
    /\ \E i \in DOMAIN cls_in.tx_logs : IsJerryLog(cls_in.tx_logs[i])
    /\ \E i \in DOMAIN cls_in.tx_logs : IsRarebetLog(cls_in.tx_logs[i])
    /\ cls_out.mon_data # <<>> /\ cls_out.jerry_data = <<>>

\* C30: when executemany or commit raises a database error, the call returns
\* 0 and the table is exactly as before the call; with or without an error
\* the call does what insert_transactions_batch does as a whole.
C30_AtomicBatch ==
    dec_out.done
    => /\ dec_in.fail_at # 0
          => /\ dec_out.result.count = 0
             /\ dec_out.result.table = dec_in.table
       /\ dec_out.result = insert_transactions_batch(dec_in.table,
                                                     dec_in.transactions,
                                                     dec_in.fail_at # 0)

\* C30, its case: executemany raises at the second record of a batch whose
\* first record is new to the table; the call returned 0.
C30_Witness ==
    /\ dec_out.done
    /\ dec_in.fail_at = 2 /\ Len(dec_in.transactions) = 2
    /\ dec_in.transactions[1].tx_hash \notin HashesOf(dec_in.table)
    /\ dec_out.result.count = 0

====
